---- MODULE Spec2Model ----
(***************************************************************************)
(* The Zendesk -> Telex webhook relay of src/main.py: one FastAPI endpoint *)
(* handler, zendesk_integration, which parses the inbound JSON body,       *)
(* extracts the ticket fields, renders one chat message and POSTs it to    *)
(* the Telex webhook with one client.post call that follows redirects,     *)
(* mapping every outcome to 200, 400 or 500.                               *)
(*                                                                         *)
(* A string is one value of the model; the string that holds a lone        *)
(* surrogate, which UTF-8 cannot encode, is written <U+D800>.              *)
(*                                                                         *)
(* JSON values are tagged records.  A scalar carries its integer in n and  *)
(* its string in s; a dict carries a function kv from its keys to values.  *)
(***************************************************************************)
EXTENDS Integers, Sequences, FiniteSets, TLC

\* Number of request slots the server handles (bound of the model).
NumReq == 2

Req == 1 .. NumReq

VARIABLES
    pc,        \* pc[r]: position of the handler task of request r
    req,       \* req[r]: the inbound request (signature header, body)
    sent,      \* sent[r]: the outbound requests started for r, in order
    inflight,  \* inflight[r]: outbound requests of r awaiting an answer
    outcomes,  \* outcomes[r]: what each outbound request of r ended with
    pending,   \* pending[r]: the exception `async with` is left with
    resp       \* resp[r]: the responses returned to the caller of r

vars == <<pc, req, sent, inflight, outcomes, pending, resp>>

-----------------------------------------------------------------------------
(* JSON values as json.loads produces them *)

JNull == [t |-> "null", n |-> 0, s |-> ""]
JInt(i) == [t |-> "int", n |-> i, s |-> ""]
JStr(x) == [t |-> "str", n |-> 0, s |-> x]
\* true and false; n is the value as the int it is in Python
JBool(b) == [t |-> "bool", n |-> IF b THEN 1 ELSE 0, s |-> ""]
\* a list, abstracted to its length
JList(len) == [t |-> "list", n |-> len, s |-> ""]
Dict(kv) == [t |-> "dict", kv |-> kv]
\* the Python literal {}
EmptyDict == Dict([k \in {} |-> JNull])

\* Only a dict has a .get method; on any other decoded value the attribute
\* lookup raises AttributeError.
HasGet(v) == v.t = "dict"

\* dict.get(key, default)
Get(d, key, default) == IF key \in DOMAIN d.kv THEN d.kv[key] ELSE default

\* Python truth value testing, as used by `if not ticket`
Falsy(v) ==
    CASE v.t = "null" -> TRUE
      [] v.t = "int"  -> v.n = 0
      [] v.t = "bool" -> v.n = 0
      [] v.t = "str"  -> v.s = ""
      [] v.t = "list" -> v.n = 0
      [] v.t = "dict" -> DOMAIN v.kv = {}

\* str(v) and f-string formatting of a scalar
PyStr(v) ==
    CASE v.t = "str"  -> v.s
      [] v.t = "int"  -> ToString(v.n)
      [] v.t = "null" -> "None"
      [] v.t = "bool" -> IF v.n = 1 THEN "True" ELSE "False"

-----------------------------------------------------------------------------
(* From the body's arrival to the outbound POST: lines 46-84 *)

\* What await request.json() ends with: the decoded value; JSONDecodeError
\* for text that is no JSON; UnicodeDecodeError for bytes that are no UTF
\* text; ClientDisconnect when the client leaves before the body is whole.
RequestJson(body) ==
    CASE body.raw = "json"       -> [exc |-> "none", data |-> body.data]
      [] body.raw = "malformed"  -> [exc |-> "JSONDecodeError", data |-> JNull]
      [] body.raw = "bad_utf8"   -> [exc |-> "UnicodeDecodeError", data |-> JNull]
      [] body.raw = "disconnect" -> [exc |-> "ClientDisconnect", data |-> JNull]

\* The f-string of the payload text, as the sequence of its literal parts and
\* replacement fields; the text is their concatenation.  A non-ASCII
\* character of a literal part is written <U+codepoint>.
TelexText(f) ==
    << "<U+1F3AB> **Ticket #", f.ticket_id,
       " Updated!**\n<U+1F4CC> **Subject:** ", PyStr(f.subject),
       "\n<U+1F518> **Status:** ", PyStr(f.status),
       "\n<U+26A1> **Priority:** ", PyStr(f.priority),
       "\n<U+1F464> **Requester:** ", PyStr(f.requester_email) >>

TelexPayload(f) == [event |-> "message", data |-> [text |-> TelexText(f)]]

NoPayload == [event |-> "none", data |-> [text |-> <<>>]]

\* "Extract ticket details safely": every field read with a default.
Extract(ticket) ==
    IF ~HasGet(ticket) THEN [exc |-> "AttributeError", payload |-> NoPayload]
    ELSE LET requester == Get(ticket, "requester", EmptyDict) IN
         IF ~HasGet(requester)
         THEN [exc |-> "AttributeError", payload |-> NoPayload]
         ELSE [exc |-> "none",
               payload |-> TelexPayload(
                 [ticket_id       |-> PyStr(Get(ticket, "id", JStr("Unknown"))),
                  subject         |-> Get(ticket, "subject", JStr("No Subject")),
                  requester_email |-> Get(requester, "email", JStr("Unknown")),
                  status          |-> Get(ticket, "status", JStr("Unknown")),
                  priority        |-> Get(ticket, "priority", JStr("Unknown"))])]

\* Everything the handler does from the end of await request.json() to the
\* outbound POST: the exception raised, or the payload to send.  The
\* request's headers are never read.
Prepare(request) ==
    LET j == RequestJson(request.body) IN
    IF j.exc # "none" THEN [exc |-> j.exc, payload |-> NoPayload]
    ELSE IF ~HasGet(j.data) THEN [exc |-> "AttributeError", payload |-> NoPayload]
    ELSE LET ticket == Get(j.data, "ticket", EmptyDict) IN
         IF Falsy(ticket) THEN [exc |-> "KeyError", payload |-> NoPayload]
         ELSE Extract(ticket)

-----------------------------------------------------------------------------
(* The outbound call and the except clauses: lines 87-124 *)

LoneSurrogate == "<U+D800>"

\* client.post builds its request before it sends anything: the json=
\* argument is serialised and encoded as UTF-8, which a lone surrogate in
\* the text makes fail.
EncodeJson(payload) ==
    IF \E i \in 1 .. Len(payload.data.text) : payload.data.text[i] = LoneSurrogate
    THEN "UnicodeEncodeError" ELSE "none"

\* An outbound request: the POST of the payload, or the GET without a body
\* that follows a redirect which changes the method.
PostOf(payload) == [method |-> "POST", json |-> payload]
GetRequest == [method |-> "GET", json |-> NoPayload]

\* What one outbound request of client.post ends with:
\*   "2xx"                a response with a 2xx status, read in full, whose
\*                        body the charset it declares decodes;
\*   "2xx_bad_charset"    a response with a 2xx status, read in full, whose
\*                        body the charset it declares cannot decode
\*                        (utf-16 or utf-32 without BOM on bytes that are
\*                        not such text, a codec that is no text codec);
\*   "error_status"       a response with a 4xx or 5xx status, or a 3xx
\*                        that names no Location, read in full;
\*   "redirect"           a 3xx with a Location that keeps the method: 307
\*                        or 308, and 301, 302 or 303 in answer to a GET;
\*   "see_other"          301, 302 or 303 with a Location in answer to the
\*                        POST: the next request is a GET without body;
\*   "2xx_undecodable"    a 2xx status line, then a body that cannot be
\*                        decoded;
\*   "undecodable"        any other status line, then a body that cannot be
\*                        decoded;
\*   "timeout"            no answer in time;
\*   "connect_error"      no connection;
\*   "other_error"        an exception of client.post that is no
\*                        httpx.RequestError: the ExceptionGroup of a
\*                        connection attempt to a port out of range, the
\*                        InvalidURL of a Location that is no URL.
Outcomes ==
    {"2xx", "2xx_bad_charset", "error_status", "redirect", "see_other",
     "2xx_undecodable", "undecodable", "timeout", "connect_error", "other_error"}

\* The outcomes client.post returns a response with a 2xx status for.
Returned2xx == {"2xx", "2xx_bad_charset"}

\* The outcomes client.post follows (follow_redirects=True).
Redirects == {"redirect", "see_other"}

\* The redirects one client.post call follows: the client's default limit.
MaxRedirects == 20

\* The request that follows `last` after a redirect.
NextRequest(last, o) == IF o = "see_other" THEN GetRequest ELSE last

\* What client.post raises when this outcome ends the call: a subclass of
\* httpx.RequestError when no response arrives or its body cannot be
\* decoded, or an exception of another class.
PostRaises(o) ==
    CASE o = "timeout"         -> "TimeoutException"
      [] o = "connect_error"   -> "ConnectError"
      [] o = "2xx_undecodable" -> "DecodingError"
      [] o = "undecodable"     -> "DecodingError"
      [] o = "other_error"     -> "ExceptionGroup"
      [] OTHER                 -> "none"

\* response.raise_for_status()
RaiseForStatus(o) == IF o \in Returned2xx THEN "none" ELSE "HTTPStatusError"

\* logger.info(f"... {response.text}"): response.text decodes the body with
\* the charset the response declares and raises when it cannot
\* (UnicodeDecodeError; TypeError for a codec that is no text codec, which
\* the except clauses treat alike).
ResponseText(o) == IF o = "2xx_bad_charset" THEN "UnicodeDecodeError" ELSE "none"

\* The exception the body of `async with` ends with, "none" for the return:
\* client.post, then raise_for_status, then the two log lines.
PostResult(o) ==
    IF PostRaises(o) # "none" THEN PostRaises(o)
    ELSE IF RaiseForStatus(o) # "none" THEN RaiseForStatus(o)
    ELSE ResponseText(o)

\* The classes an exception is an instance of.
Mro(exc) ==
    CASE exc = "KeyError"           -> {"KeyError", "LookupError", "Exception"}
      [] exc = "AttributeError"     -> {"AttributeError", "Exception"}
      [] exc = "JSONDecodeError"    -> {"JSONDecodeError", "ValueError", "Exception"}
      [] exc = "UnicodeDecodeError" -> {"UnicodeDecodeError", "UnicodeError",
                                        "ValueError", "Exception"}
      [] exc = "UnicodeEncodeError" -> {"UnicodeEncodeError", "UnicodeError",
                                        "ValueError", "Exception"}
      [] exc = "ClientDisconnect"   -> {"ClientDisconnect", "Exception"}
      [] exc = "TimeoutException"   -> {"TimeoutException", "TransportError",
                                        "RequestError", "HTTPError", "Exception"}
      [] exc = "ConnectError"       -> {"ConnectError", "NetworkError", "TransportError",
                                        "RequestError", "HTTPError", "Exception"}
      [] exc = "DecodingError"      -> {"DecodingError", "RequestError",
                                        "HTTPError", "Exception"}
      [] exc = "TooManyRedirects"   -> {"TooManyRedirects", "RequestError",
                                        "HTTPError", "Exception"}
      [] exc = "HTTPStatusError"    -> {"HTTPStatusError", "HTTPError", "Exception"}
      [] exc = "ExceptionGroup"     -> {"ExceptionGroup", "BaseExceptionGroup", "Exception"}

\* The except clauses, tried in order; an exception none of them matches
\* leaves the handler.
Catch(exc) ==
    IF "KeyError" \in Mro(exc)
    THEN [caught |-> TRUE, status |-> 400, key |-> "error",
          text |-> "Missing key in request data: "]
    ELSE IF "RequestError" \in Mro(exc)
    THEN [caught |-> TRUE, status |-> 500, key |-> "error",
          text |-> "Failed to send request to Telex: "]
    ELSE IF "Exception" \in Mro(exc)
    THEN [caught |-> TRUE, status |-> 500, key |-> "error",
          text |-> "Unexpected error: "]
    ELSE [caught |-> FALSE, status |-> 0, key |-> "none", text |-> ""]

SentToTelex == [caught |-> TRUE, status |-> 200, key |-> "message", text |-> "Sent to Telex"]

\* The handler of request r ends: with the JSONResponse it returns, or with
\* the exception that leaves it.
Finish(r, exc) ==
    LET c == IF exc = "none" THEN SentToTelex ELSE Catch(exc) IN
    IF c.caught
    THEN /\ resp' = [resp EXCEPT ![r] = Append(@, [status |-> c.status, key |-> c.key, text |-> c.text])]
         /\ pc' = [pc EXCEPT ![r] = "done"]
    ELSE /\ resp' = resp
         /\ pc' = [pc EXCEPT ![r] = "raised"]

-----------------------------------------------------------------------------
(* Inbound requests *)

StatusEnum == {"new", "open", "pending", "solved", "closed"}
PriorityEnum == {"low", "normal", "high", "urgent"}

\* Bodies that never decode: text that is no JSON, bytes that are no UTF
\* text, a body cut short by the client's disconnect.
Undecodable ==
    {[raw |-> k, data |-> JNull] : k \in {"malformed", "bad_utf8", "disconnect"}}

\* The signature header of the inbound request.
SigHeaders == {"absent", "present"}

ValidTicketDict ==
    Dict([id |-> JInt(42), subject |-> JStr("Login broken"), status |-> JStr("open"),
          priority |-> JStr("high"), requester |-> Dict([email |-> JStr("a@b.com")])])

NoPriorityDict ==
    Dict([id |-> JInt(42), subject |-> JStr("Login broken"), status |-> JStr("open"),
          requester |-> Dict([email |-> JStr("a@b.com")])])

\* A few bodies, one for each way through the handler: two that never
\* decode, a body that is no object, an empty ticket, a ticket that is no
\* object, a requester that is no object, a ticket whose text cannot be
\* encoded, a valid ticket.
FewBodies ==
    {[raw |-> "malformed", data |-> JNull],
     [raw |-> "disconnect", data |-> JNull],
     [raw |-> "json", data |-> JInt(5)],
     [raw |-> "json", data |-> Dict([ticket |-> EmptyDict])],
     [raw |-> "json", data |-> Dict([ticket |-> JInt(5)])],
     [raw |-> "json", data |-> Dict([ticket |-> Dict([requester |-> JNull])])],
     [raw |-> "json", data |-> Dict([ticket |-> Dict([subject |-> JStr(LoneSurrogate)])])],
     [raw |-> "json", data |-> Dict([ticket |-> ValidTicketDict])]}

\* Tickets that are objects with a key or more: the valid one, one without a
\* priority, and the valid one with a required field left out, an empty
\* requester, or a status or a priority outside the known values.
TicketDicts ==
    {ValidTicketDict, NoPriorityDict,
     Dict([subject |-> JStr("Login broken"), status |-> JStr("open"),
           priority |-> JStr("high"), requester |-> Dict([email |-> JStr("a@b.com")])]),
     Dict([id |-> JInt(42), subject |-> JStr("Login broken"), status |-> JStr("open"),
           priority |-> JStr("high"), requester |-> EmptyDict]),
     Dict([id |-> JInt(42), subject |-> JStr("Login broken"), status |-> JStr("bogus"),
           priority |-> JStr("high"), requester |-> Dict([email |-> JStr("a@b.com")])]),
     Dict([id |-> JInt(42), subject |-> JStr("Login broken"), status |-> JStr("open"),
           priority |-> JStr("bogus"), requester |-> Dict([email |-> JStr("a@b.com")])])}

\* What the body's "ticket" key can hold besides.
TicketValues ==
    {JNull, JBool(TRUE), JStr(""), JStr("abc"), JInt(0), JList(0), JList(1)}

\* Raw bodies: the few above, the other undecodable one, JSON that is no
\* object, objects without and with a "ticket" key.
Bodies ==
    FewBodies \cup Undecodable
      \cup {[raw |-> "json", data |-> d] : d \in {JNull, JStr("abc"), JList(0), EmptyDict}}
      \cup {[raw |-> "json", data |-> Dict([ticket |-> t])] : t \in TicketDicts \cup TicketValues}

\* Redirects in a row the chat platform answers one request with (bound of
\* the model).
ConcHops == 1

NoRequest == [sig |-> "none", body |-> [raw |-> "none", data |-> JNull]]

-----------------------------------------------------------------------------
(* The state machine.  A handler gives up control at its awaits only: of the *)
(* body (line 46), inside client.post (line 91) for the answer to an         *)
(* outbound request and for the body of a redirect answer, and of the        *)
(* client's close on leaving `async with` (line 87).                         *)

Init ==
    /\ pc = [r \in Req |-> "idle"]
    /\ req = [r \in Req |-> NoRequest]
    /\ sent = [r \in Req |-> <<>>]
    /\ inflight = [r \in Req |-> 0]
    /\ outcomes = [r \in Req |-> <<>>]
    /\ pending = [r \in Req |-> "none"]
    /\ resp = [r \in Req |-> <<>>]

\* A POST /zendesk-integration starts a handler task, which runs to
\* await request.json() and waits there for the body.
Receive(r, S, B) ==
    /\ pc[r] = "idle"
    /\ \E sig \in S, body \in B :
         req' = [req EXCEPT ![r] = [sig |-> sig, body |-> body]]
    /\ pc' = [pc EXCEPT ![r] = "reading"]
    /\ UNCHANGED <<sent, inflight, outcomes, pending, resp>>

\* Handle with a fault: the POST is started twice without awaiting the first.
HandleGather(r) ==
    /\ pc[r] = "reading"
    /\ LET p == Prepare(req[r]) IN
       IF p.exc # "none"
       THEN /\ Finish(r, p.exc)
            /\ UNCHANGED <<sent, inflight, pending>>
       ELSE IF EncodeJson(p.payload) # "none"
       THEN /\ pending' = [pending EXCEPT ![r] = EncodeJson(p.payload)]
            /\ pc' = [pc EXCEPT ![r] = "closing"]
            /\ UNCHANGED <<sent, inflight, resp>>
       ELSE /\ sent' = [sent EXCEPT ![r] = Append(Append(@, PostOf(p.payload)), PostOf(p.payload))]
            /\ inflight' = [inflight EXCEPT ![r] = @ + 2]
            /\ pc' = [pc EXCEPT ![r] = "awaiting"]
            /\ UNCHANGED <<pending, resp>>
    /\ UNCHANGED <<req, outcomes>>

\* The body has arrived, or the client has left: the handler runs on to an
\* except clause, or into client.post, which fails to build its request or
\* sends the POST and awaits the answer.
Handle(r) ==
    /\ pc[r] = "reading"
    /\ LET p == Prepare(req[r]) IN
       IF p.exc # "none"
       THEN /\ Finish(r, p.exc)
            /\ UNCHANGED <<sent, inflight, pending>>
       ELSE IF EncodeJson(p.payload) # "none"
       THEN /\ pending' = [pending EXCEPT ![r] = EncodeJson(p.payload)]
            /\ pc' = [pc EXCEPT ![r] = "closing"]
            /\ UNCHANGED <<sent, inflight, resp>>
       ELSE /\ sent' = [sent EXCEPT ![r] = Append(@, PostOf(p.payload))]
            /\ inflight' = [inflight EXCEPT ![r] = @ + 1]
            /\ pc' = [pc EXCEPT ![r] = "awaiting"]
            /\ UNCHANGED <<pending, resp>>
    /\ UNCHANGED <<req, outcomes>>

\* An outbound request of r ends.  After a redirect client.post reads the
\* body of the answer before it goes on; any other outcome ends the call,
\* and the handler goes on to leave `async with`.  The chat platform answers
\* one request with at most `hops` redirects in a row.
TelexReply(r, hops) ==
    /\ pc[r] = "awaiting"
    /\ inflight[r] > 0
    /\ \E o \in Outcomes :
         /\ o \in Redirects => Len(outcomes[r]) < hops
         /\ o = "see_other" => sent[r][Len(sent[r])].method = "POST"
         /\ outcomes' = [outcomes EXCEPT ![r] = Append(@, o)]
         /\ inflight' = [inflight EXCEPT ![r] = @ - 1]
         /\ IF o \in Redirects
            THEN /\ pc' = [pc EXCEPT ![r] = "following"]
                 /\ pending' = pending
            ELSE /\ pc' = [pc EXCEPT ![r] = "closing"]
                 /\ pending' = [pending EXCEPT ![r] = PostResult(o)]
    /\ UNCHANGED <<req, sent, resp>>

\* client.post goes on after a redirect: it raises TooManyRedirects when
\* more than MaxRedirects answers were redirects, else it sends the next
\* request, the same again or a GET without body.
Follow(r) ==
    /\ pc[r] = "following"
    /\ IF Len(outcomes[r]) > MaxRedirects
       THEN /\ pc' = [pc EXCEPT ![r] = "closing"]
            /\ pending' = [pending EXCEPT ![r] = "TooManyRedirects"]
            /\ UNCHANGED <<sent, inflight>>
       ELSE /\ sent' = [sent EXCEPT ![r] =
                          Append(@, NextRequest(sent[r][Len(sent[r])],
                                                outcomes[r][Len(outcomes[r])]))]
            /\ inflight' = [inflight EXCEPT ![r] = @ + 1]
            /\ pc' = [pc EXCEPT ![r] = "awaiting"]
            /\ pending' = pending
    /\ UNCHANGED <<req, outcomes, resp>>

\* The client is closed: the handler returns its 200 response, or the
\* exception raised in client.post or by raise_for_status reaches the except
\* clauses.
Return(r) ==
    /\ pc[r] = "closing"
    /\ Finish(r, pending[r])
    /\ UNCHANGED <<req, sent, inflight, outcomes, pending>>

\* The response is on the wire; the request-scoped objects are dropped.
Close(r) ==
    /\ pc[r] \in {"done", "raised"}
    /\ pc' = [pc EXCEPT ![r] = "idle"]
    /\ req' = [req EXCEPT ![r] = NoRequest]
    /\ sent' = [sent EXCEPT ![r] = <<>>]
    /\ inflight' = [inflight EXCEPT ![r] = 0]
    /\ outcomes' = [outcomes EXCEPT ![r] = <<>>]
    /\ pending' = [pending EXCEPT ![r] = "none"]
    /\ resp' = [resp EXCEPT ![r] = <<>>]

\* Requests arrive at any time, with and without a signature header and
\* with every body of the model, and their handlers interleave at every await.
Next ==
    \E r \in Req :
        \/ Receive(r, SigHeaders, Bodies)
        \/ Handle(r)
        \/ TelexReply(r, ConcHops)
        \/ Follow(r)
        \/ Return(r)
        \/ Close(r)

Spec == Init /\ [][Next]_vars

\* The same with the few bodies and one signature header.
NextConc ==
    \E r \in Req :
        \/ Receive(r, {"present"}, FewBodies)
        \/ Handle(r)
        \/ TelexReply(r, ConcHops)
        \/ Follow(r)
        \/ Return(r)
        \/ Close(r)

SpecConc == Init /\ [][NextConc]_vars

-----------------------------------------------------------------------------
(* Vocabulary of the properties *)

Answered(r) == pc[r] = "done"
StatusOf(r) == resp[r][1].status
LastOutcome(r) == outcomes[r][Len(outcomes[r])]
\* The text of the first outbound POST of r.
TextOf(r) == sent[r][1].json.data.text

IsObject(v) == v.t = "dict"
HasKey(d, k) == k \in DOMAIN d.kv

\* The body is JSON and holds an object under "ticket".
HasTicketObject(body) ==
    /\ body.raw = "json"
    /\ IsObject(body.data)
    /\ HasKey(body.data, "ticket")
    /\ IsObject(body.data.kv.ticket)

TicketOf(r) == req[r].body.data.kv.ticket

\* The body holds a ticket object with at least one key.
HasNonEmptyTicket(body) ==
    HasTicketObject(body) /\ DOMAIN body.data.kv.ticket.kv # {}

\* requester.email cannot be read from the ticket.
LacksEmail(t) ==
    \/ ~HasKey(t, "requester")
    \/ ~IsObject(t.kv.requester)
    \/ ~HasKey(t.kv.requester, "email")

LacksRequired(t) ==
    ~HasKey(t, "id") \/ ~HasKey(t, "subject") \/ ~HasKey(t, "status") \/ LacksEmail(t)

BadStatus(t) ==
    HasKey(t, "status") /\ ~(t.kv.status.t = "str" /\ t.kv.status.s \in StatusEnum)
BadPriority(t) ==
    HasKey(t, "priority") /\ ~(t.kv.priority.t = "str" /\ t.kv.priority.s \in PriorityEnum)

\* A Ticket of the data model: id, subject, status and requester.email
\* present and well typed, priority absent or a known value.
ValidTicket(t) ==
    /\ HasKey(t, "id") /\ t.kv.id.t = "int"
    /\ HasKey(t, "subject") /\ t.kv.subject.t = "str"
    /\ HasKey(t, "status") /\ ~BadStatus(t)
    /\ ~BadPriority(t)
    /\ ~LacksEmail(t) /\ t.kv.requester.kv.email.t = "str"

\* values[i ..] occur in text[j ..], in this order: each value is matched
\* at its first occurrence after the one before.
RECURSIVE InOrderFrom(_, _, _, _)
InOrderFrom(values, text, i, j) ==
    IF i > Len(values) THEN TRUE
    ELSE IF j > Len(text) THEN FALSE
    ELSE IF text[j] = values[i] THEN InOrderFrom(values, text, i + 1, j + 1)
    ELSE InOrderFrom(values, text, i, j + 1)

\* The values occur in the text, in this order.
InOrder(values, text) == InOrderFrom(values, text, 1, 1)

-----------------------------------------------------------------------------
(* C1 *)

\* C1 as stated: a request makes at most 3 outbound attempts; when every
\* attempt times out exactly 3 are made before the request fails; when the
\* first 2 time out and the 3rd gets a 2xx the request succeeds after 3.
C1_ThreeAttempts ==
    \A r \in Req :
        /\ Len(sent[r]) <= 3
        /\ Answered(r) /\ outcomes[r] # <<>> =>
             /\ (\A i \in 1 .. Len(outcomes[r]) : outcomes[r][i] = "timeout") =>
                    Len(outcomes[r]) = 3 /\ Len(sent[r]) = 3 /\ StatusOf(r) # 200
             /\ outcomes[r] = <<"timeout", "timeout", "2xx">> =>
                    Len(sent[r]) = 3 /\ StatusOf(r) = 200

-----------------------------------------------------------------------------
(* C2 *)

\* The outcomes in which an outbound attempt received a 2xx response.
Received2xx == Returned2xx \cup {"2xx_undecodable"}

\* C2: once an outbound attempt of a request has received a 2xx response, it
\* is the request's last attempt, nothing is in flight, and the handler
\* answers 200 when it ends; and a request answered 200 has an attempt that
\* received a 2xx response.
C2_AsStated ==
    \A r \in Req :
        /\ \A i \in 1 .. Len(outcomes[r]) :
             outcomes[r][i] \in Received2xx =>
                /\ i = Len(outcomes[r])
                /\ Len(sent[r]) = i
                /\ inflight[r] = 0
                /\ pc[r] \in {"closing", "done"}
                /\ Answered(r) => StatusOf(r) = 200
        /\ Answered(r) /\ StatusOf(r) = 200 =>
             \E i \in 1 .. Len(outcomes[r]) : outcomes[r][i] \in Received2xx

-----------------------------------------------------------------------------
(* C3 *)

\* C3 as stated: a request without a signature header is answered 401 and
\* makes no outbound call.
C3_Unauthenticated ==
    \A r \in Req :
        pc[r] # "idle" /\ req[r].sig = "absent" =>
            /\ sent[r] = <<>>
            /\ Answered(r) => StatusOf(r) = 401

-----------------------------------------------------------------------------
(* C4 *)

\* C4 as stated: a request whose JSON body has no ticket object, or an empty
\* one, is answered 400 and makes no outbound call.
C4_MissingTicket400 ==
    \A r \in Req :
        pc[r] # "idle" /\ req[r].body.raw = "json" /\ ~HasNonEmptyTicket(req[r].body) =>
            /\ sent[r] = <<>>
            /\ pc[r] # "raised"
            /\ Answered(r) => StatusOf(r) = 400

-----------------------------------------------------------------------------
(* C5 *)

\* C5 as stated: a request whose non-empty ticket lacks id, subject, status
\* or requester.email is answered 400 and makes no outbound call.
C5_MissingField400 ==
    \A r \in Req :
        pc[r] # "idle" /\ HasNonEmptyTicket(req[r].body) /\ LacksRequired(TicketOf(r)) =>
            /\ sent[r] = <<>>
            /\ Answered(r) => StatusOf(r) = 400

-----------------------------------------------------------------------------
(* C6 *)

\* C6 as stated: a request whose ticket has a status outside the five known
\* values, or a present priority outside the four known ones, is answered 400
\* and makes no outbound call.
C6_BadEnum400 ==
    \A r \in Req :
        /\ pc[r] # "idle" /\ HasNonEmptyTicket(req[r].body)
        /\ BadStatus(TicketOf(r)) \/ BadPriority(TicketOf(r))
        => /\ sent[r] = <<>>
           /\ Answered(r) => StatusOf(r) = 400

-----------------------------------------------------------------------------
(* C7 *)

\* The outbound call of r was made and did not return a 2xx response.
DeliveryFailed(r) ==
    /\ pc[r] \in {"done", "raised"}
    /\ outcomes[r] # <<>> /\ LastOutcome(r) \notin Returned2xx

\* C7 as stated: a terminal delivery failure is answered 504 when the last
\* failure was a timeout and 502 otherwise, never 500 or 200.
C7_GatewayStatus ==
    \A r \in Req :
        DeliveryFailed(r) =>
            /\ Answered(r)
            /\ StatusOf(r) = (IF LastOutcome(r) = "timeout" THEN 504 ELSE 502)

-----------------------------------------------------------------------------
(* C8 *)

\* C8: under any interleaving of the handlers, a request has at most one
\* outbound attempt in flight, and every attempt but its last has ended,
\* without a 2xx, before the next was started.
C8_OneInFlight ==
    \A r \in Req :
        /\ inflight[r] <= 1
        /\ Len(sent[r]) = Len(outcomes[r]) + inflight[r]
        /\ \A i \in 1 .. Len(sent[r]) - 1 :
             i <= Len(outcomes[r]) /\ outcomes[r][i] \notin Received2xx

C8_Witness ==
    \E r, q \in Req :
        r # q /\ inflight[r] = 1 /\ inflight[q] = 1 /\ Len(sent[r]) = 2

-----------------------------------------------------------------------------
(* C9 *)

\* The id, subject, status, priority and requester email of a valid ticket,
\* the priority of a ticket without one reading as `unset`.
FieldsOf(t, unset) ==
    << ToString(t.kv.id.n), t.kv.subject.s, t.kv.status.s,
       IF HasKey(t, "priority") THEN t.kv.priority.s ELSE unset,
       t.kv.requester.kv.email.s >>

\* C9 as stated: the text sent for a valid ticket holds id, subject, status,
\* priority and requester email in that order, a ticket without a priority
\* reading "Not set".
C9_NotSet ==
    \A r \in Req :
        /\ sent[r] # <<>>
        /\ HasTicketObject(req[r].body) /\ ValidTicket(TicketOf(r))
        => InOrder(FieldsOf(TicketOf(r), "Not set"), TextOf(r))

-----------------------------------------------------------------------------
(* C10 *)

\* The parsed body is an object whose "ticket" is missing or falsy.
TicketMissingOrFalsy(body) ==
    /\ body.raw = "json"
    /\ IsObject(body.data)
    /\ HasKey(body.data, "ticket") =>
         LET t == body.data.kv.ticket IN
         \/ t.t = "null"
         \/ t.t \in {"int", "bool", "list"} /\ t.n = 0
         \/ t.t = "str" /\ t.s = ""
         \/ t.t = "dict" /\ DOMAIN t.kv = {}

\* C10: no exception leaves the handler; a handler that has ended has
\* returned exactly one response, and no other has returned any; the status
\* is 400 exactly when the parsed body is an object whose ticket is missing
\* or falsy, 200 exactly when client.post returned a response with a 2xx
\* status, and 500 otherwise.
C10_OneResponse ==
    \A r \in Req :
        /\ pc[r] # "raised"
        /\ Len(resp[r]) = (IF Answered(r) THEN 1 ELSE 0)
        /\ Answered(r) =>
             /\ StatusOf(r) \in {200, 400, 500}
             /\ StatusOf(r) = 400 <=> TicketMissingOrFalsy(req[r].body)
             /\ StatusOf(r) = 200 <=>
                  (outcomes[r] # <<>> /\ LastOutcome(r) \in Returned2xx)

====
